---------------------------- MODULE Spec2Model ----------------------------
(***************************************************************************)
(* Air sculptures (Arduino Mega build): two LED strips, each either idling *)
(* (ping-pong brightness ramp) or playing back a brightness sequence       *)
(* derived from air measurements, with the hue driven by a distance        *)
(* sensor.  One pass of loop() is modelled call by call: pc names the call *)
(* of loop() that runs next.                                               *)
(***************************************************************************)
EXTENDS Integers, Sequences, FiniteSets, TLC

VARIABLES
  pc,                 \* position in setup()/loop()
  sculptureId,        \* main.cpp:72-89: the build's SCULPTURE_ID
  fell,               \* main.cpp:54-55: fell[n] is what button<n-1>.fallingEdge() returns
  isButton0Pressed,   \* main.cpp:57
  isButton1Pressed,   \* main.cpp:57
  rangeVal,           \* main.cpp:60
  loxmsec,            \* main.cpp:61 (elapsedMillis)
  isUserPresent,      \* main.cpp:62
  measure,            \* myfunctions.h:22: what lox.rangingTest last returned
  Color,              \* main.cpp:69-70: Color[n] is strip<n>Color (CHSV)
  leds,               \* main.cpp:80: leds[k] is the CRGB array leds<k>
  readings,           \* main.cpp:79: readings[n] is readings<n>
  playMode,           \* main.cpp:93: playMode[n] is strip<n>playMode
  brightness,         \* main.cpp:95
  maxBrightLvl,       \* main.cpp:96
  hasPlayModeChanged, \* main.cpp:97
  activeLedState,     \* main.cpp:98
  isMaxBrightness,    \* main.cpp:99
  bandms,             \* main.cpp:100 (elapsedMillis)
  bandDelay,          \* main.cpp:101
  readingsCounter,    \* main.cpp:102
  prevBrightVal,      \* main.cpp:103
  currBrightVal,      \* main.cpp:103
  presses,            \* environment: falling edges delivered so far
  sparkles            \* environment: glitter sparkles drawn so far

inputVars == <<fell, isButton0Pressed, isButton1Pressed, rangeVal, loxmsec, isUserPresent,
               measure>>
stripVars == <<playMode, brightness, maxBrightLvl, hasPlayModeChanged, activeLedState,
               isMaxBrightness, bandms, bandDelay, readingsCounter, prevBrightVal,
               currBrightVal>>
vars == <<pc, sculptureId, inputVars, Color, leds, readings, stripVars, presses, sparkles>>

---------------------------------------------------------------------------
(* Program constants *)

SCULPTURE_ID == 2
BAND_DELAY == 500
IDLE_MODE == 1
BUTTON_MODE == 2
UPDATES_PER_SECOND == 100
PM25_1 == <<118, 38, 34, 111, 125, 82, 178, 174, 43, 43, 42, 83, 63, 83, 85, 103, 68, 53, 54, 66>>
PM25_2 == <<65, 88, 44, 42, 73, 69, 70, 61, 54, 89, 86, 91, 60, 63, 92, 88, 95, 55, 85, 49,
            48, 51, 35, 38, 49, 51, 21, 32, 28, 42, 21, 25>>
CO2_1 == <<1609, 577, 406, 419, 443, 414, 403, 413, 409, 411, 412, 409, 423, 414, 421, 434, 421>>
CO2_2 == <<1685, 642, 618, 698, 697, 778, 450, 664, 648, 676, 425, 504, 550, 481, 640, 942,
           1791, 504, 733, 688, 592, 608, 850, 779, 1876, 646, 648, 659, 893, 422, 455, 701,
           716, 892, 1046, 455, 483, 503, 448, 550>>
VOC_1 == <<8, 11, 5, 13, 16, 14, 15, 17, 15, 20, 29, 21, 22, 19, 14, 13, 19, 25, 17, 15, 13,
           17, 16, 15, 20, 17>>
VOC_2 == <<122, 67, 24, 36, 46, 32, 29, 34, 27, 25, 22, 23, 19, 23, 21, 33, 26, 34, 41, 15,
           25, 18>>
cblue == [hue |-> 140, sat |-> 255, val |-> 255]

(* Bounds of the model *)

\* pixels kept per LED array: the first and the last one (the two that
\* strip<n>_has_fade reads); the pixels between them are written and faded alike
BandLen == 2
\* milliseconds a pass of loop() takes beyond the FastLED.delay of main.cpp:176
FrameOverheadMs == 30
\* falling edges the environment delivers in one run
MaxPresses == 2
\* sparkles add_glitter draws in one run
MaxSparkles == 1

Strips == {1, 2}
\* milliseconds from one pass of loop() to the next
FrameMs == 1000 \div UPDATES_PER_SECOND + FrameOverheadMs
Min(a, b) == IF a < b THEN a ELSE b

---------------------------------------------------------------------------
(* Library arithmetic used by the sketch (Arduino core, FastLED) *)

\* mutant: the quotient is rounded to the nearest integer
map_rounded(x, in_min, in_max, out_min, out_max) ==
  (2 * (x - in_min) * (out_max - out_min) + (in_max - in_min)) \div (2 * (in_max - in_min))
    + out_min

\* Arduino map(): long arithmetic, division truncating
map(x, in_min, in_max, out_min, out_max) ==
  ((x - in_min) * (out_max - out_min)) \div (in_max - in_min) + out_min

u8(x) == x % 256
u16(x) == x % 65536
\* a value stored in an int (16 bits, two's complement, on the Mega 2560)
i16(x) == ((x + 32768) % 65536) - 32768

scale8(i, scale) == (i * (1 + scale)) \div 256
scale8_video(i, scale) == (i * scale) \div 256 + (IF i > 0 /\ scale > 0 THEN 1 ELSE 0)

Black == [r |-> 0, g |-> 0, b |-> 0]
White == [r |-> 255, g |-> 255, b |-> 255]

\* the fully saturated, full value colour of a hue (FastLED hsv2rgb_rainbow)
RainbowHue(hue) ==
  LET section == hue \div 32
      offset8 == (hue % 32) * 8
      third == scale8(offset8, 85)
      twothirds == scale8(offset8, 170)
  IN  CASE section = 0 -> [r |-> 255 - third, g |-> third, b |-> 0]
        [] section = 1 -> [r |-> 171, g |-> 85 + third, b |-> 0]
        [] section = 2 -> [r |-> 171 - twothirds, g |-> 170 + third, b |-> 0]
        [] section = 3 -> [r |-> 0, g |-> 255 - third, b |-> third]
        [] section = 4 -> [r |-> 0, g |-> 171 - twothirds, b |-> 85 + twothirds]
        [] section = 5 -> [r |-> third, g |-> 0, b |-> 255 - third]
        [] section = 6 -> [r |-> 85 + third, g |-> 0, b |-> 171 - third]
        [] OTHER       -> [r |-> 170 + third, g |-> 0, b |-> 85 - third]

\* CRGB = CHSV: hsv2rgb_rainbow with sat = 255 (the sketch never changes sat)
hsv2rgb(hsv) ==
  LET full == RainbowHue(hsv.hue)
      v == scale8_video(hsv.val, hsv.val)
      dim(c) == IF c = 0 THEN 0 ELSE scale8(c, v)
  IN  IF hsv.val = 255 THEN full
      ELSE IF v = 0 THEN Black
      ELSE [r |-> dim(full.r), g |-> dim(full.g), b |-> dim(full.b)]

\* CRGB::fadeToBlackBy(fadefactor) = nscale8(255 - fadefactor)
fadeToBlackBy(p, fadefactor) ==
  [r |-> scale8(p.r, 255 - fadefactor), g |-> scale8(p.g, 255 - fadefactor),
   b |-> scale8(p.b, 255 - fadefactor)]

\* CRGB::getAverageLight()
getAverageLight(p) == u8(scale8(p.r, 85) + scale8(p.g, 85) + scale8(p.b, 85))

\* a whole array set to one colour
Fill(buf, colour) == [i \in DOMAIN buf |-> colour]

---------------------------------------------------------------------------
(* State after static initialisation (main.cpp:50-103) *)

TimerCap == BAND_DELAY * 2

\* mutant: time stands still
Elapse_stuck(t, dt) == t

\* an elapsedMillis counter after dt more milliseconds; the sketch compares
\* the counters with 100 and with BAND_DELAY * 2 only, so they saturate there
Elapse(t, dt) == Min(t + dt, TimerCap)

\* the CRGB arrays of a build: leds2 and leds3 have length 0 unless SCULPTURE_ID = 1
NewLeds(id) ==
  [k \in 0..3 |-> IF k <= 1 \/ id = 1 THEN [i \in 1..BandLen |-> Black] ELSE <<>>]

NumReadings(id, n) ==
  CASE id = 1 -> IF n = 1 THEN 17 ELSE 40
    [] id = 2 -> IF n = 1 THEN 20 ELSE 32
    [] OTHER  -> IF n = 1 THEN 26 ELSE 22

\* the ranging record before the first poll
NoMeasure == [RangeStatus |-> 4, RangeMilliMeter |-> 0]

InitFor(ids) ==
  /\ pc = "setup"
  /\ sculptureId \in ids
  /\ fell = [n \in Strips |-> FALSE]
  /\ isButton0Pressed = FALSE
  /\ isButton1Pressed = FALSE
  /\ rangeVal = 0
  /\ loxmsec = 0
  /\ isUserPresent = FALSE
  /\ measure = NoMeasure
  /\ Color = [n \in Strips |-> cblue]
  /\ leds = NewLeds(sculptureId)
  /\ readings = [n \in Strips |-> [i \in 1..NumReadings(sculptureId, n) |-> 0]]
  /\ playMode = [n \in Strips |-> IDLE_MODE]
  /\ brightness = [n \in Strips |-> 0]
  /\ maxBrightLvl = [n \in Strips |-> 255]
  /\ hasPlayModeChanged = [n \in Strips |-> FALSE]
  /\ activeLedState = [n \in Strips |-> 0]
  /\ isMaxBrightness = [n \in Strips |-> FALSE]
  /\ bandms = [n \in Strips |-> 0]
  /\ bandDelay = [n \in Strips |-> BAND_DELAY]
  /\ readingsCounter = [n \in Strips |-> 0]
  /\ prevBrightVal = [n \in Strips |-> 0]
  /\ currBrightVal = [n \in Strips |-> 0]
  /\ presses = 0
  /\ sparkles = 0

Init == InitFor({SCULPTURE_ID})

---------------------------------------------------------------------------
(* setup() *)

register_readings(id) ==
  LET tr(D, hi) == [i \in DOMAIN D |-> map(D[i], 0, hi, 0, 255)]
  IN  CASE id = 1 -> [n \in Strips |-> IF n = 1 THEN tr(CO2_1, 1800) ELSE tr(CO2_2, 1800)]
        [] id = 2 -> [n \in Strips |-> IF n = 1 THEN tr(PM25_1, 125) ELSE tr(PM25_2, 125)]
        [] OTHER  -> [n \in Strips |-> IF n = 1 THEN tr(VOC_1, 130) ELSE tr(VOC_2, 130)]

\* mutant: the readings are registered before lox.begin() is tested
setup_registerFirst ==
  /\ pc = "setup"
  /\ readings' = register_readings(sculptureId)
  /\ \E booted \in BOOLEAN :
       IF ~booted
       THEN /\ pc' = "halt"
            /\ UNCHANGED <<loxmsec, bandms>>
       ELSE /\ pc' = "read_console"
            /\ loxmsec' = Elapse(loxmsec, 2010)
            /\ bandms' = [n \in Strips |-> Elapse(bandms[n], 2010)]
  /\ UNCHANGED <<sculptureId, fell, isButton0Pressed, isButton1Pressed, rangeVal,
                 isUserPresent, measure, Color, leds, playMode, brightness, maxBrightLvl,
                 hasPlayModeChanged, activeLedState, isMaxBrightness, bandDelay,
                 readingsCounter, prevBrightVal, currBrightVal, presses, sparkles>>

\* lox.begin() fails: while(1).  Otherwise delay(2000), addLeds, delay(10),
\* register_readings(); the elapsedMillis counters have run since construction.
setup ==
  /\ pc = "setup"
  /\ \E booted \in BOOLEAN :
       IF ~booted
       THEN /\ pc' = "halt"
            /\ UNCHANGED <<readings, loxmsec, bandms>>
       ELSE /\ pc' = "read_console"
            /\ readings' = register_readings(sculptureId)
            /\ loxmsec' = Elapse(loxmsec, 2010)
            /\ bandms' = [n \in Strips |-> Elapse(bandms[n], 2010)]
  /\ UNCHANGED <<sculptureId, fell, isButton0Pressed, isButton1Pressed, rangeVal,
                 isUserPresent, measure, Color, leds, playMode, brightness, maxBrightLvl,
                 hasPlayModeChanged, activeLedState, isMaxBrightness, bandDelay,
                 readingsCounter, prevBrightVal, currBrightVal, presses, sparkles>>

---------------------------------------------------------------------------
(* The environment of one pass of loop() *)

\* idle brightness levels at which the environment may press a strip's button
PressLevels == {130}
\* sequence cursors at which it may press it during Interpolating
PressCursors == {6}
\* average light of the strip's first pixel at which it may press it during a fade
PressLights == {15}
\* average light of a fading strip's first pixel at which add_glitter may sparkle
SparkleLights == {5}

\* the CRGB array strip<n>_fade, strip<n>_set_brightLevel and strip<n>_has_fade use
BufOf(n) == n - 1

\* the passes in which the environment may press button <n-1>
PressMoment(n, levels) ==
  IF playMode[n] = IDLE_MODE THEN brightness[n] \in levels
  ELSE IF activeLedState[n] = 1
       THEN bandms[n] <= FrameMs /\ readingsCounter[n] \in PressCursors
       ELSE getAverageLight(leds[BufOf(n)][1]) \in PressLights

\* what button<n-1>.fallingEdge() may return this pass
FallingEdges(n, levels, budget) ==
  IF presses < budget /\ PressMoment(n, levels) THEN BOOLEAN ELSE {FALSE}

\* what lox.rangingTest may return: nobody in range
QuietMeasures == {[RangeStatus |-> 4, RangeMilliMeter |-> 8190]}

\* what lox.rangingTest may return: a valid or a phase-failure status with a
\* distance at the ends of the hue range, around the hue wheel's wrap, around
\* the presence limit and at the sensor's out-of-range reading
SensorDistances == {0, 500, 703, 704, 999, 1000, 1001, 8190}
SensorMeasures ==
  {[RangeStatus |-> st, RangeMilliMeter |-> d] : st \in {0, 4}, d \in SensorDistances}

---------------------------------------------------------------------------
(* loop(): read_console *)

\* mutant: the ranging status is not tested
read_console_anyStatus(measures, levels, budget) ==
  /\ pc = "read_console"
  /\ \E fell0 \in FallingEdges(1, levels, budget), fell1 \in FallingEdges(2, levels, budget) :
       LET n == (IF fell0 THEN 1 ELSE 0) + (IF fell1 THEN 1 ELSE 0)
       IN  /\ presses + n <= budget
           /\ presses' = presses + n
           /\ fell' = [k \in Strips |-> IF k = 1 THEN fell0 ELSE fell1]
           /\ isButton0Pressed' = (fell0 \/ isButton0Pressed)
           /\ isButton1Pressed' = (fell1 \/ isButton1Pressed)
  /\ IF loxmsec > 100
     THEN \E m \in measures :
            /\ measure' = m
            /\ rangeVal' = i16(m.RangeMilliMeter)
            /\ isUserPresent' = ~(i16(m.RangeMilliMeter) > 1000)
            /\ loxmsec' = 0
     ELSE UNCHANGED <<rangeVal, isUserPresent, measure, loxmsec>>
  /\ pc' = "do_colour_variation"
  /\ UNCHANGED <<sculptureId, Color, leds, readings, stripVars, sparkles>>

read_console(measures, levels, budget) ==
  /\ pc = "read_console"
  /\ \E fell0 \in FallingEdges(1, levels, budget), fell1 \in FallingEdges(2, levels, budget) :
       LET n == (IF fell0 THEN 1 ELSE 0) + (IF fell1 THEN 1 ELSE 0)
       IN  /\ presses + n <= budget
           /\ presses' = presses + n
           /\ fell' = [k \in Strips |-> IF k = 1 THEN fell0 ELSE fell1]
           /\ isButton0Pressed' = (fell0 \/ isButton0Pressed)
           /\ isButton1Pressed' = (fell1 \/ isButton1Pressed)
  /\ IF loxmsec > 100
     THEN \E m \in measures :
            /\ measure' = m
            /\ IF m.RangeStatus # 4
               THEN /\ rangeVal' = i16(m.RangeMilliMeter)
                    /\ isUserPresent' = ~(i16(m.RangeMilliMeter) > 1000)
               ELSE /\ isUserPresent' = FALSE
                    /\ UNCHANGED rangeVal
            /\ loxmsec' = 0
     ELSE UNCHANGED <<rangeVal, isUserPresent, measure, loxmsec>>
  /\ pc' = "do_colour_variation"
  /\ UNCHANGED <<sculptureId, Color, leds, readings, stripVars, sparkles>>

(* loop(): do_colour_variation *)

\* mutant: only strip 1 gets the hue
do_colour_variation_strip1 ==
  /\ pc = "do_colour_variation"
  /\ LET hue == IF isUserPresent THEN u8(map(rangeVal, 0, 500, 76, 204)) ELSE cblue.hue
     IN  Color' = [Color EXCEPT ![1].hue = hue]
  /\ pc' = "set_playMode"
  /\ UNCHANGED <<sculptureId, inputVars, leds, readings, stripVars, presses, sparkles>>

do_colour_variation ==
  /\ pc = "do_colour_variation"
  /\ LET hue == IF isUserPresent THEN u8(map(rangeVal, 0, 500, 76, 204)) ELSE cblue.hue
     IN  Color' = [n \in Strips |-> [Color[n] EXCEPT !.hue = hue]]
  /\ pc' = "set_playMode"
  /\ UNCHANGED <<sculptureId, inputVars, leds, readings, stripVars, presses, sparkles>>

(* loop(): set_playMode *)

\* mutant: both tests read button 0's flag
Activated_button0 == {n \in Strips : isButton0Pressed}

\* mutant: a press is ignored while the strip plays back
Activated_idleOnly ==
  {n \in Strips : playMode[n] = IDLE_MODE
                    /\ (IF n = 1 THEN isButton0Pressed ELSE isButton1Pressed)}

\* the strips whose button flag is set
Activated == {n \in Strips : IF n = 1 THEN isButton0Pressed ELSE isButton1Pressed}

\* what set_playMode does to the strips whose flag is set
Activate ==
  /\ playMode' = [n \in Strips |-> IF n \in Activated THEN BUTTON_MODE ELSE playMode[n]]
  /\ hasPlayModeChanged' =
       [n \in Strips |-> IF n \in Activated THEN TRUE ELSE hasPlayModeChanged[n]]
  /\ activeLedState' = [n \in Strips |-> IF n \in Activated THEN 0 ELSE activeLedState[n]]
  /\ bandDelay' = [n \in Strips |-> IF n \in Activated THEN BAND_DELAY \div 4 ELSE bandDelay[n]]

\* mutant: the flags are not cleared
set_playMode_keepFlag ==
  /\ pc = "set_playMode"
  /\ Activate
  /\ pc' = "strip1"
  /\ UNCHANGED <<sculptureId, fell, isButton0Pressed, isButton1Pressed, rangeVal, loxmsec,
                 isUserPresent, measure, Color, leds, readings, brightness, maxBrightLvl,
                 isMaxBrightness, bandms, readingsCounter, prevBrightVal, currBrightVal,
                 presses, sparkles>>

\* mutant: activation also clears the direction flag
set_playMode_resetFlag ==
  /\ pc = "set_playMode"
  /\ isButton0Pressed' = FALSE
  /\ isButton1Pressed' = FALSE
  /\ Activate
  /\ isMaxBrightness' = [n \in Strips |-> IF n \in Activated THEN FALSE ELSE isMaxBrightness[n]]
  /\ pc' = "strip1"
  /\ UNCHANGED <<sculptureId, fell, rangeVal, loxmsec, isUserPresent, measure, Color, leds,
                 readings,
                 brightness, maxBrightLvl, bandms, readingsCounter, prevBrightVal,
                 currBrightVal, presses, sparkles>>

set_playMode ==
  /\ pc = "set_playMode"
  /\ isButton0Pressed' = FALSE
  /\ isButton1Pressed' = FALSE
  /\ Activate
  /\ pc' = "strip1"
  /\ UNCHANGED <<sculptureId, fell, rangeVal, loxmsec, isUserPresent, measure, Color, leds,
                 readings,
                 brightness, maxBrightLvl, isMaxBrightness, bandms, readingsCounter,
                 prevBrightVal, currBrightVal, presses, sparkles>>

---------------------------------------------------------------------------
(* led strip support functions *)

\* mutant: the loop stops after the first pixel
fade_firstOnly(buf) == [i \in DOMAIN buf |-> IF i = 1 THEN fadeToBlackBy(buf[i], 8) ELSE buf[i]]

\* strip<n>_fade: the array after fadeToBlackBy(8) on each pixel
fade(buf) == [i \in DOMAIN buf |-> fadeToBlackBy(buf[i], 8)]

\* mutant: a pixel counts as black one level early
has_fade_dim(buf) ==
  getAverageLight(buf[1]) <= 1 /\ getAverageLight(buf[Len(buf)]) <= 1

\* strip<n>_has_fade on the array
has_fade(buf) ==
  getAverageLight(buf[1]) = 0 /\ getAverageLight(buf[Len(buf)]) = 0

\* mutant: a ramp in steps of two, without the clamps
RampStep_step2(b, isMax, maxLvl) == IF ~isMax THEN b + 2 ELSE b - 2

\* the body of strip<n>_get_brightness: one step of the ramp, up while the
\* direction flag is clear and down while it is set
RampStep(b, isMax, maxLvl) ==
  IF ~isMax
  THEN IF b + 1 > maxLvl THEN maxLvl ELSE b + 1
  ELSE IF b - 1 < 0 THEN 0 ELSE b - 1

\* strip<n>_get_brightness(_brightness)
get_brightness(n, b) == RampStep(b, isMaxBrightness[n], maxBrightLvl[n])

\* mutant: the flag is never cleared at 0
RampFlag_noClear(brightlevel, isMax, maxLvl) == IF brightlevel = maxLvl THEN TRUE ELSE isMax

\* the direction flag after an idle step that produced brightlevel
RampFlag(brightlevel, isMax, maxLvl) ==
  IF brightlevel = maxLvl THEN TRUE
  ELSE IF brightlevel = 0 THEN FALSE
  ELSE isMax

NextIsMax(n, brightlevel) == RampFlag(brightlevel, isMaxBrightness[n], maxBrightLvl[n])

---------------------------------------------------------------------------
(* Idle fade animation *)

\* variables no idle step writes
idleFrame == <<sculptureId, inputVars, readings, playMode, maxBrightLvl, hasPlayModeChanged,
               activeLedState, bandms, bandDelay, readingsCounter, prevBrightVal,
               currBrightVal, presses, sparkles>>

strip1_idle_animation ==
  LET brightlevel == get_brightness(1, brightness[1])
      colour == [Color[1] EXCEPT !.val = u8(brightlevel)]
  IN  /\ brightness' = [brightness EXCEPT ![1] = brightlevel]
      /\ Color' = [Color EXCEPT ![1] = colour]
      /\ leds' = IF sculptureId = 1
                 THEN [k \in 0..3 |-> IF k <= 2 THEN Fill(leds[k], hsv2rgb(colour))
                                       ELSE leds[k]]
                 ELSE [leds EXCEPT ![0] = Fill(leds[0], hsv2rgb(colour))]
      /\ isMaxBrightness' = [isMaxBrightness EXCEPT ![1] = NextIsMax(1, brightlevel)]
      /\ UNCHANGED idleFrame

strip2_idle_animation ==
  LET brightlevel == get_brightness(2, brightness[2])
      colour == [Color[2] EXCEPT !.val = u8(brightlevel)]
  IN  /\ brightness' = [brightness EXCEPT ![2] = brightlevel]
      /\ Color' = [Color EXCEPT ![2] = colour]
      /\ leds' = IF sculptureId = 1
                 THEN [leds EXCEPT ![3] = Fill(leds[3], hsv2rgb(Color[1]))]
                 ELSE [leds EXCEPT ![1] = Fill(leds[1], hsv2rgb(colour))]
      /\ isMaxBrightness' = [isMaxBrightness EXCEPT ![2] = NextIsMax(2, brightlevel)]
      /\ UNCHANGED idleFrame

---------------------------------------------------------------------------
(* plays back readings *)

\* variables no playback step writes
playFrame == <<sculptureId, inputVars, readings, presses, sparkles>>

\* mutant: the brightness is not reset
go_idle_keepBrightness(n) ==
  /\ activeLedState' = [activeLedState EXCEPT ![n] = 0]
  /\ playMode' = [playMode EXCEPT ![n] = IDLE_MODE]
  /\ hasPlayModeChanged' = [hasPlayModeChanged EXCEPT ![n] = TRUE]
  /\ bandDelay' = [bandDelay EXCEPT ![n] = BAND_DELAY]
  /\ maxBrightLvl' = [maxBrightLvl EXCEPT ![n] = 255]
  /\ isMaxBrightness' = [isMaxBrightness EXCEPT ![n] = FALSE]
  /\ bandms' = [bandms EXCEPT ![n] = 0]
  /\ UNCHANGED brightness

\* strip<n>_go_idle
go_idle(n) ==
  /\ activeLedState' = [activeLedState EXCEPT ![n] = 0]
  /\ playMode' = [playMode EXCEPT ![n] = IDLE_MODE]
  /\ hasPlayModeChanged' = [hasPlayModeChanged EXCEPT ![n] = TRUE]
  /\ bandDelay' = [bandDelay EXCEPT ![n] = BAND_DELAY]
  /\ maxBrightLvl' = [maxBrightLvl EXCEPT ![n] = 255]
  /\ isMaxBrightness' = [isMaxBrightness EXCEPT ![n] = FALSE]
  /\ brightness' = [brightness EXCEPT ![n] = 0]
  /\ bandms' = [bandms EXCEPT ![n] = 0]

\* what readings<n>[strip<n>readingsCounter] may yield: the element, or, read
\* past the end of the array, whatever lies behind it
ReadingAt(n) ==
  IF readingsCounter[n] < Len(readings[n])
  THEN {readings[n][readingsCounter[n] + 1]}
  ELSE {0, 255}

\* mutant: sizeof(readings<n>) alone, in bytes (an int has 2)
numElements_bytes(n) == 2 * Len(readings[n])

\* sizeof(readings<n>) / sizeof(readings<n>[0])
numElements(n) == Len(readings[n])

\* strip<n>Color.val after one interpolation step towards curr (uint8_t arithmetic)
StepVal(val, curr, prev) ==
  IF curr > prev
  THEN IF val < curr THEN u8(val + 10) ELSE val
  ELSE IF val > curr THEN u8(val - 10) ELSE val

\* activeLedState == 0: dim the lights
FadeOut(n) ==
  LET faded == fade(leds[BufOf(n)])
  IN  /\ activeLedState[n] = 0
      /\ leds' = [leds EXCEPT ![BufOf(n)] = faded]
      /\ IF has_fade(faded)
         THEN /\ activeLedState' = [activeLedState EXCEPT ![n] = 1]
              /\ bandms' = [bandms EXCEPT ![n] = 0]
              /\ readingsCounter' = [readingsCounter EXCEPT ![n] = 0]
              /\ currBrightVal' = [currBrightVal EXCEPT ![n] = 0]
              /\ prevBrightVal' = [prevBrightVal EXCEPT ![n] = 0]
              /\ Color' = [Color EXCEPT ![n].val = 0]
         ELSE UNCHANGED <<activeLedState, bandms, readingsCounter, currBrightVal,
                          prevBrightVal, Color>>
      /\ UNCHANGED <<playMode, brightness, maxBrightLvl, hasPlayModeChanged,
                     isMaxBrightness, bandDelay>>

\* mutant: the cursor advances by two
Interpolate_skip(n) ==
  /\ activeLedState[n] = 1
  /\ IF bandms[n] < BAND_DELAY * 2
     THEN \E curr \in ReadingAt(n) :
            LET colour == [Color[n] EXCEPT !.val = StepVal(Color[n].val, curr, prevBrightVal[n])]
            IN  /\ currBrightVal' = [currBrightVal EXCEPT ![n] = curr]
                /\ Color' = [Color EXCEPT ![n] = colour]
                /\ leds' = [leds EXCEPT ![BufOf(n)] = Fill(leds[BufOf(n)], hsv2rgb(colour))]
                /\ UNCHANGED <<activeLedState, bandms, readingsCounter, prevBrightVal>>
     ELSE LET counter == u16(readingsCounter[n] + 2)
          IN  /\ prevBrightVal' = [prevBrightVal EXCEPT ![n] = currBrightVal[n]]
              /\ readingsCounter' = [readingsCounter EXCEPT ![n] = counter]
              /\ bandms' = [bandms EXCEPT ![n] = 0]
              /\ activeLedState' =
                   [activeLedState EXCEPT ![n] = IF counter = numElements(n) THEN 2 ELSE 1]
              /\ UNCHANGED <<currBrightVal, Color, leds>>
  /\ UNCHANGED <<playMode, brightness, maxBrightLvl, hasPlayModeChanged,
                 isMaxBrightness, bandDelay>>

\* activeLedState == 1: show the readings one after the other
Interpolate(n) ==
  /\ activeLedState[n] = 1
  /\ IF bandms[n] < BAND_DELAY * 2
     THEN \E curr \in ReadingAt(n) :
            LET colour == [Color[n] EXCEPT !.val = StepVal(Color[n].val, curr, prevBrightVal[n])]
            IN  /\ currBrightVal' = [currBrightVal EXCEPT ![n] = curr]
                /\ Color' = [Color EXCEPT ![n] = colour]
                /\ leds' = [leds EXCEPT ![BufOf(n)] = Fill(leds[BufOf(n)], hsv2rgb(colour))]
                /\ UNCHANGED <<activeLedState, bandms, readingsCounter, prevBrightVal>>
     ELSE LET counter == u16(readingsCounter[n] + 1)
          IN  /\ prevBrightVal' = [prevBrightVal EXCEPT ![n] = currBrightVal[n]]
              /\ readingsCounter' = [readingsCounter EXCEPT ![n] = counter]
              /\ bandms' = [bandms EXCEPT ![n] = 0]
              /\ activeLedState' =
                   [activeLedState EXCEPT ![n] = IF counter = numElements(n) THEN 2 ELSE 1]
              /\ UNCHANGED <<currBrightVal, Color, leds>>
  /\ UNCHANGED <<playMode, brightness, maxBrightLvl, hasPlayModeChanged,
                 isMaxBrightness, bandDelay>>

\* activeLedState == 2: fade to black, then idle
FadeToIdle(n) ==
  LET faded == fade(leds[BufOf(n)])
  IN  /\ activeLedState[n] = 2
      /\ leds' = [leds EXCEPT ![BufOf(n)] = faded]
      /\ IF has_fade(faded)
         THEN go_idle(n)
         ELSE UNCHANGED <<activeLedState, playMode, hasPlayModeChanged, bandDelay,
                          maxBrightLvl, isMaxBrightness, brightness, bandms>>
      /\ UNCHANGED <<readingsCounter, currBrightVal, prevBrightVal, Color>>

\* strip<n>_playback_readings
playback_readings(n) ==
  /\ FadeOut(n) \/ Interpolate(n) \/ FadeToIdle(n)
  /\ UNCHANGED playFrame

---------------------------------------------------------------------------
(* loop(): the two strips, the glitter, the frame *)

Strip1Idle == pc = "strip1" /\ playMode[1] = IDLE_MODE /\ strip1_idle_animation /\ pc' = "strip2"
Strip1Playback ==
  pc = "strip1" /\ playMode[1] = BUTTON_MODE /\ playback_readings(1) /\ pc' = "strip2"
Strip2Idle ==
  pc = "strip2" /\ playMode[2] = IDLE_MODE /\ strip2_idle_animation /\ pc' = "add_glitter"
Strip2Playback ==
  pc = "strip2" /\ playMode[2] = BUTTON_MODE /\ playback_readings(2) /\ pc' = "add_glitter"

\* the passes in which add_glitter may sparkle: some strip is fading
SparkleMoment ==
  \E n \in Strips :
    /\ playMode[n] = BUTTON_MODE
    /\ activeLedState[n] # 1
    /\ getAverageLight(leds[BufOf(n)][1]) \in SparkleLights

\* add_glitter: at most one pixel of one array sparkles white (leds[i] += CRGB::White)
add_glitter(budget) ==
  /\ pc = "add_glitter"
  /\ \/ UNCHANGED <<leds, sparkles>>
     \/ /\ sparkles < budget
        /\ SparkleMoment
        /\ sparkles' = sparkles + 1
        /\ \E k \in 0..3 : \E i \in DOMAIN leds[k] : leds' = [leds EXCEPT ![k][i] = White]
  /\ pc' = "show"
  /\ UNCHANGED <<sculptureId, inputVars, Color, readings, stripVars, presses>>

\* FastLED.show(); FastLED.delay(1000 / UPDATES_PER_SECOND): time passes
show ==
  /\ pc = "show"
  /\ loxmsec' = Elapse(loxmsec, FrameMs)
  /\ bandms' = [n \in Strips |-> Elapse(bandms[n], FrameMs)]
  /\ pc' = "read_console"
  /\ UNCHANGED <<sculptureId, fell, isButton0Pressed, isButton1Pressed, rangeVal,
                 isUserPresent, measure, Color, leds, readings, playMode, brightness, maxBrightLvl,
                 hasPlayModeChanged, activeLedState, isMaxBrightness, bandDelay,
                 readingsCounter, prevBrightVal, currBrightVal, presses, sparkles>>

ReadConsole == read_console(QuietMeasures, PressLevels, MaxPresses)
AddGlitter == add_glitter(MaxSparkles)

Next ==
  \/ setup
  \/ ReadConsole
  \/ do_colour_variation
  \/ set_playMode
  \/ Strip1Idle
  \/ Strip1Playback
  \/ Strip2Idle
  \/ Strip2Playback
  \/ AddGlitter
  \/ show

Spec == Init /\ [][Next]_vars

\* every pass of loop() is followed by the next one
FairSpec == Spec /\ WF_vars(Next)

\* One press in the whole run, arriving at any idle brightness and in either
\* ramp direction, and no glitter.
AllLevels == 0..255
ReadConsoleAnyLevel == read_console(QuietMeasures, AllLevels, 1)
AddNoGlitter == add_glitter(0)

NextAnyLevel ==
  \/ setup
  \/ ReadConsoleAnyLevel
  \/ do_colour_variation
  \/ set_playMode
  \/ Strip1Idle
  \/ Strip1Playback
  \/ Strip2Idle
  \/ Strip2Playback
  \/ AddNoGlitter
  \/ show

SpecAnyLevel == Init /\ [][NextAnyLevel]_vars

\* One press in the whole run, at the darkest, a middle and the brightest idle
\* level, with glitter.
OnePressLevels == {0, 130, 255}
ReadConsoleOnePress == read_console(QuietMeasures, OnePressLevels, 1)

NextOnePress ==
  \/ setup
  \/ ReadConsoleOnePress
  \/ do_colour_variation
  \/ set_playMode
  \/ Strip1Idle
  \/ Strip1Playback
  \/ Strip2Idle
  \/ Strip2Playback
  \/ AddGlitter
  \/ show

SpecOnePress == Init /\ [][NextOnePress]_vars

\* the same, and every pass of loop() is followed by the next one
FairSpecOnePress == SpecOnePress /\ WF_vars(NextOnePress)

\* Nobody presses a button, so both strips idle; somebody moves in front of
\* the distance sensor.
ReadConsoleSensor == read_console(SensorMeasures, PressLevels, 0)

NextSensor ==
  \/ setup
  \/ ReadConsoleSensor
  \/ do_colour_variation
  \/ set_playMode
  \/ Strip1Idle
  \/ Strip2Idle
  \/ AddNoGlitter
  \/ show

SpecSensor == Init /\ [][NextSensor]_vars

\* Two presses in the whole run, the second one possibly during the playback
\* the first one started, no glitter, and every pass of loop() is followed by
\* the next one.
NextRepress ==
  \/ setup
  \/ ReadConsole
  \/ do_colour_variation
  \/ set_playMode
  \/ Strip1Idle
  \/ Strip1Playback
  \/ Strip2Idle
  \/ Strip2Playback
  \/ AddNoGlitter
  \/ show

FairSpecRepress == Init /\ [][NextRepress]_vars /\ WF_vars(NextRepress)

\* Each of the three builds (__CO2__, __PM25__, __VOC__), with one press.
SpecVariants == InitFor({1, 2, 3}) /\ [][NextOnePress]_vars

---------------------------------------------------------------------------
(* Properties *)

\* the (play mode, phase) pair of strip n
Phase(n) ==
  IF playMode[n] = IDLE_MODE THEN "Idle"
  ELSE CASE activeLedState[n] = 0 -> "FadeOut"
         [] activeLedState[n] = 1 -> "Interpolating"
         [] OTHER -> "FadeToIdle"

\* the activate flag of strip n
Flag(n) == IF n = 1 THEN isButton0Pressed ELSE isButton1Pressed

\* the value of pc at which strip n's animation step runs
StripPc(n) == IF n = 1 THEN "strip1" ELSE "strip2"

DefinedEdges ==
  {<<"Idle", "FadeOut">>, <<"FadeOut", "Interpolating">>,
   <<"Interpolating", "FadeToIdle">>, <<"FadeToIdle", "Idle">>}
RestartEdges == {<<"Interpolating", "FadeOut">>, <<"FadeToIdle", "FadeOut">>}

\* C1 as stated: a strip's (play mode, phase) pair changes only along
\* Idle -> FadeOut (on its activate flag), FadeOut -> Interpolating,
\* Interpolating -> FadeToIdle and FadeToIdle -> Idle.
C1_OnlyDefinedEdges ==
  [][\A n \in Strips :
       Phase(n)' # Phase(n) =>
         /\ <<Phase(n), Phase(n)'>> \in DefinedEdges
         /\ Phase(n)' = "FadeOut" => Flag(n)]_vars

\* C1 amended: the pair changes only along the four edges above and along
\* Interpolating -> FadeOut and FadeToIdle -> FadeOut, and every change into
\* FadeOut is made by set_playMode on that strip's activate flag.
C1_EdgesWithRestart ==
  [][\A n \in Strips :
       Phase(n)' # Phase(n) =>
         /\ <<Phase(n), Phase(n)'>> \in DefinedEdges \cup RestartEdges
         /\ Phase(n)' = "FadeOut" => (pc = "set_playMode" /\ Flag(n))]_vars

\* strip 1 was pressed again while Interpolating at cursor 6 and fades out again
C1_Witness ==
  /\ Phase(1) = "FadeOut"
  /\ readingsCounter[1] = 6
  /\ presses = 2

\* C2: a strip that a press has put into Playback(FadeOut) reaches
\* Interpolating with cursor 0 and previous target 0.
C2_ReachesInterpolating ==
  \A n \in Strips :
    (Phase(n) = "FadeOut")
      ~> (Phase(n) = "Interpolating" /\ readingsCounter[n] = 0 /\ prevBrightVal[n] = 0)

\* strip 1, pressed at full idle brightness, has reached Interpolating
C2_Witness ==
  /\ Phase(1) = "Interpolating"
  /\ readingsCounter[1] = 0
  /\ prevBrightVal[1] = 0
  /\ brightness[1] = 255

\* C3: while a strip is Interpolating its cursor is below the length of its
\* sequence, and the step that finds the dwell window elapsed with the cursor
\* on the last element moves the strip to FadeToIdle.
C3_CursorInRange ==
  [][\A n \in Strips :
       /\ activeLedState[n]' = 1 => readingsCounter[n]' < Len(readings[n]')
       /\ ( /\ pc = StripPc(n)
            /\ Phase(n) = "Interpolating"
            /\ ~(bandms[n] < BAND_DELAY * 2)
            /\ readingsCounter[n] = Len(readings[n]) - 1 )
          => Phase(n)' = "FadeToIdle"]_vars

\* strip 1 has consumed its whole sequence and fades to idle
C3_Witness ==
  /\ Phase(1) = "FadeToIdle"
  /\ readingsCounter[1] = Len(readings[1])

\* C4: a strip enters Interpolating only from FadeOut, in its own animation
\* step, and with the first and the last pixel of its array at average light 0.
C4_BlackBeforeInterpolating ==
  [][\A n \in Strips :
       (Phase(n) # "Interpolating" /\ Phase(n)' = "Interpolating") =>
         /\ Phase(n) = "FadeOut"
         /\ pc = StripPc(n)
         /\ getAverageLight(leds[BufOf(n)][1]') = 0
         /\ getAverageLight(leds[BufOf(n)][Len(leds[BufOf(n)])]') = 0]_vars

\* strip 1, pressed at idle brightness 130 on the way up, has just entered
\* Interpolating with its array black
C4_Witness ==
  /\ pc = "strip2"
  /\ Phase(1) = "Interpolating"
  /\ bandms[1] = 0
  /\ readingsCounter[1] = 0
  /\ Color[1].val = 0
  /\ brightness[1] = 130
  /\ ~isMaxBrightness[1]
  /\ has_fade(leds[0])

\* C5 as stated: inside the dwell window a rising target raises the value by
\* 10 and never leaves it above the target, a falling target lowers it by 10
\* and never leaves it below the target.
C5_NoOvershoot ==
  [][\A n \in Strips :
       ( /\ pc = StripPc(n)
         /\ Phase(n) = "Interpolating"
         /\ bandms[n] < BAND_DELAY * 2 )
       => LET target == currBrightVal[n]'
              prev == prevBrightVal[n]
          IN  /\ target > prev => Color[n].val' <= target
              /\ target < prev => Color[n].val' >= target]_vars

\* C6: the step that takes a strip from Playback to Idle starts in FadeToIdle
\* with both end pixels black, and leaves activeLedState 0, the fade delay
\* BAND_DELAY, the maximum level 255, the direction flag clear, the brightness
\* 0 and the phase timer 0.
C6_IdleReset ==
  [][\A n \in Strips :
       (playMode[n] = BUTTON_MODE /\ playMode[n]' = IDLE_MODE) =>
         /\ Phase(n) = "FadeToIdle"
         /\ has_fade(leds[BufOf(n)]')
         /\ activeLedState[n]' = 0
         /\ bandDelay[n]' = BAND_DELAY
         /\ maxBrightLvl[n]' = 255
         /\ isMaxBrightness[n]' = FALSE
         /\ brightness[n]' = 0
         /\ bandms[n]' = 0]_vars

\* strip 1 has just gone idle after a playback
C6_Witness ==
  /\ pc = "strip2"
  /\ playMode[1] = IDLE_MODE
  /\ hasPlayModeChanged[1]
  /\ bandms[1] = 0
  /\ brightness[1] = 0

\* brightness and direction flag after one idle step
RampOnce(s, maxLvl) ==
  LET brightlevel == RampStep(s.b, s.isMax, maxLvl)
  IN  [b |-> brightlevel, isMax |-> RampFlag(brightlevel, s.isMax, maxLvl)]

\* brightness and direction flag after k idle steps in a row; the run is split
\* in halves, and the first half is evaluated (mid = mid) before the second
\* starts, which keeps the evaluation shallow
RECURSIVE RampRun(_, _, _)
RampRun(k, s, maxLvl) ==
  IF k = 0 THEN s
  ELSE IF k = 1 THEN RampOnce(s, maxLvl)
  ELSE LET mid == RampRun(k \div 2, s, maxLvl)
       IN  IF mid = mid THEN RampRun(k - k \div 2, mid, maxLvl) ELSE mid

\* C7: from the state an idle strip is in when its step is due, 2 x
\* maxBrightLvl idle steps in a row bring the brightness back to its value.
C7_FullCycle ==
  \A n \in Strips :
    (pc = StripPc(n) /\ playMode[n] = IDLE_MODE) =>
      RampRun(2 * maxBrightLvl[n], [b |-> brightness[n], isMax |-> isMaxBrightness[n]],
              maxBrightLvl[n]).b = brightness[n]

\* strip 1 idles again after a playback, on the way down at 130
C7_Witness ==
  /\ pc = "strip1"
  /\ playMode[1] = IDLE_MODE
  /\ hasPlayModeChanged[1]
  /\ brightness[1] = 130
  /\ isMaxBrightness[1]

\* C8: the brightness of each strip is within 0..maxBrightLvl.
C8_BrightnessInRange ==
  \A n \in Strips : 0 <= brightness[n] /\ brightness[n] <= maxBrightLvl[n]

\* strip 1 idles at the maximum level while strip 2 plays back
C8_Witness ==
  /\ brightness[1] = maxBrightLvl[1]
  /\ playMode[1] = IDLE_MODE
  /\ playMode[2] = BUTTON_MODE

\* C9: a flag is set exactly in the pass in which its button fell and only
\* until set_playMode has run; outside that window both flags are clear; the
\* strip whose button fell is in Playback(FadeOut) when its step runs.
C9_OneShotFlag ==
  /\ pc \in {"do_colour_variation", "set_playMode"} => \A n \in Strips : Flag(n) = fell[n]
  /\ pc \notin {"do_colour_variation", "set_playMode"} => \A n \in Strips : ~Flag(n)
  /\ \A n \in Strips : (pc = StripPc(n) /\ fell[n]) => Phase(n) = "FadeOut"

\* button 1 fell in this pass, its flag is consumed and strip 2's step is due
C9_Witness ==
  /\ pc = "strip2"
  /\ fell[2]
  /\ ~isButton1Pressed
  /\ Phase(2) = "FadeOut"

\* C10 as stated: after Idle -> Playback(FadeOut) the direction flag is clear.
C10_FlagCleared ==
  [][\A n \in Strips :
       (playMode[n] = IDLE_MODE /\ playMode[n]' = BUTTON_MODE) =>
         isMaxBrightness[n]' = FALSE]_vars

\* C10 amended: Idle -> Playback(FadeOut) leaves the direction flag as it was
\* in Idle.
C10_FlagKept ==
  [][\A n \in Strips :
       (playMode[n] = IDLE_MODE /\ playMode[n]' = BUTTON_MODE) =>
         isMaxBrightness[n]' = isMaxBrightness[n]]_vars

\* strip 1 was activated on the way down and its direction flag is still set
C10_Witness ==
  /\ pc = "strip1"
  /\ fell[1]
  /\ Phase(1) = "FadeOut"
  /\ isMaxBrightness[1]
  /\ presses = 1

\* C11: after every sensor poll the presence flag is set exactly when the
\* ranging status is not the phase-failure code 4 and the returned distance is
\* at most 1000 mm.
C11_PresenceClassified ==
  [][(pc = "read_console" /\ loxmsec > 100) =>
       (isUserPresent' <=> (measure'.RangeStatus # 4 /\ measure'.RangeMilliMeter <= 1000))]_vars

\* a valid reading of exactly 1000 mm has just been classified as present
C11_Witness ==
  /\ pc = "do_colour_variation"
  /\ loxmsec = 0
  /\ measure = [RangeStatus |-> 0, RangeMilliMeter |-> 1000]
  /\ isUserPresent

\* the linear map of [0, 500] mm to the hues [76, 204], continued beyond 500 mm
LinearHue(mm) == 76 + (mm * (204 - 76)) \div 500

\* C12 as stated: after do_colour_variation both strips have the same hue, 140
\* without presence and the linear map of the stored distance with presence.
C12_HueLinear ==
  [][pc = "do_colour_variation" =>
       /\ Color[1].hue' = Color[2].hue'
       /\ ~isUserPresent => Color[1].hue' = 140
       /\ isUserPresent => Color[1].hue' = LinearHue(rangeVal)]_vars

\* C12 amended: with presence the hue is the linear map of the stored distance
\* taken on the 256-step hue wheel (modulo 256).
C12_HueOnWheel ==
  [][pc = "do_colour_variation" =>
       /\ Color[1].hue' = Color[2].hue'
       /\ ~isUserPresent => Color[1].hue' = 140
       /\ isUserPresent => Color[1].hue' = LinearHue(rangeVal) % 256]_vars

\* somebody stands at 1000 mm and the hue has gone once round the wheel
C12_Witness ==
  /\ pc = "set_playMode"
  /\ isUserPresent
  /\ rangeVal = 1000
  /\ Color[1].hue = 76
  /\ Color[2].hue = 76

\* the dataset behind strip n's sequence in build id, and the upper end of its
\* domain range (the lower end is 0)
Dataset(id, n) ==
  CASE id = 1 -> IF n = 1 THEN CO2_1 ELSE CO2_2
    [] id = 2 -> IF n = 1 THEN PM25_1 ELSE PM25_2
    [] OTHER  -> IF n = 1 THEN VOC_1 ELSE VOC_2
DomainMax(id) == CASE id = 1 -> 1800 [] id = 2 -> 125 [] OTHER -> 130

\* setup() has run to its end
Started == pc \notin {"setup", "halt"}

\* C13 as stated: each sequence has the length of its dataset and
\* readings[i] is D[i] * 255 / max rounded to the nearest integer.
C13_Rounded ==
  Started =>
    \A n \in Strips :
      LET D == Dataset(sculptureId, n)
          hi == DomainMax(sculptureId)
      IN  /\ Len(readings[n]) = Len(D)
          /\ \A i \in DOMAIN D :
               LET d == 2 * (readings[n][i] * hi - D[i] * 255)
               IN  -hi <= d /\ d <= hi

\* C13 amended: readings[i] is D[i] * 255 / max with the fraction dropped.
C13_Truncated ==
  Started =>
    \A n \in Strips :
      LET D == Dataset(sculptureId, n)
          hi == DomainMax(sculptureId)
      IN  /\ Len(readings[n]) = Len(D)
          /\ \A i \in DOMAIN D :
               /\ readings[n][i] * hi <= D[i] * 255
               /\ D[i] * 255 < (readings[n][i] + 1) * hi

\* the PM2.5 build has translated 118 (240.72 of 255) into 240
C13_Witness ==
  /\ Started
  /\ sculptureId = 2
  /\ PM25_1[1] = 118
  /\ readings[1][1] = 240

\* C14 as stated: every element of each strip's sequence lies in 0..255.
C14_InByteRange ==
  Started => \A n \in Strips : \A i \in DOMAIN readings[n] : readings[n][i] \in 0..255

\* C15: once lox.begin() has failed nothing runs any more: no step leaves the
\* halt, the readings are still unregistered, and every strip's state, the
\* colours and the pixel arrays are as static initialisation left them.
C15_HaltsForEver ==
  /\ [][pc # "halt"]_vars
  /\ [](pc = "halt" =>
         /\ readings = [n \in Strips |-> [i \in 1..NumReadings(sculptureId, n) |-> 0]]
         /\ leds = NewLeds(sculptureId)
         /\ Color = [n \in Strips |-> cblue]
         /\ playMode = [n \in Strips |-> IDLE_MODE]
         /\ brightness = [n \in Strips |-> 0]
         /\ maxBrightLvl = [n \in Strips |-> 255]
         /\ hasPlayModeChanged = [n \in Strips |-> FALSE]
         /\ activeLedState = [n \in Strips |-> 0]
         /\ isMaxBrightness = [n \in Strips |-> FALSE]
         /\ bandDelay = [n \in Strips |-> BAND_DELAY]
         /\ readingsCounter = [n \in Strips |-> 0]
         /\ prevBrightVal = [n \in Strips |-> 0]
         /\ currBrightVal = [n \in Strips |-> 0])

\* the sensor was not found
C15_Witness == pc = "halt" /\ loxmsec = 0

\* the state record of strip n: everything of it but the shared hue
StripRecord(n) ==
  <<playMode[n], brightness[n], maxBrightLvl[n], hasPlayModeChanged[n], activeLedState[n],
    isMaxBrightness[n], bandms[n], bandDelay[n], readingsCounter[n], prevBrightVal[n],
    currBrightVal[n], Color[n].sat, Color[n].val>>

Other(n) == 3 - n

\* C16 as stated: a step of strip n, and set_playMode without the other
\* strip's flag, leave the other strip's state record and the pixel array the
\* other strip fades and tests unchanged.
C16_Independent ==
  [][\A n \in Strips :
       (pc = StripPc(n) \/ (pc = "set_playMode" /\ ~Flag(Other(n)))) =>
         /\ StripRecord(Other(n))' = StripRecord(Other(n))
         /\ leds[BufOf(Other(n))]' = leds[BufOf(Other(n))]]_vars

\* the CRGB arrays wired to strip n in build id (main.cpp:124-140)
StripBufs(id, n) == IF id = 1 THEN (IF n = 1 THEN {0, 1, 2} ELSE {3}) ELSE {n - 1}

\* C17 as stated: after an idle step of strip n every pixel of every array of
\* strip n has the colour of the modulator's hue at strip n's new brightness.
C17_UniformIdleColour ==
  [][\A n \in Strips :
       (pc = StripPc(n) /\ playMode[n] = IDLE_MODE) =>
         \A k \in StripBufs(sculptureId, n) : \A i \in DOMAIN leds[k] :
           leds[k][i]' = hsv2rgb([hue |-> Color[n].hue, sat |-> 255, val |-> brightness[n]'])]_vars

\* C18: while a strip is Interpolating its cursor changes only in the strip's
\* own step and only when the phase timer has reached 2 x BAND_DELAY; that
\* step adds exactly 1 to the cursor, resets the timer and makes the target
\* just displayed (the element under the old cursor) the previous target; a
\* step inside the window targets the element under the cursor.
C18_CursorAdvance ==
  [][\A n \in Strips :
       Phase(n) = "Interpolating" =>
         /\ readingsCounter[n]' # readingsCounter[n] =>
              /\ pc = StripPc(n)
              /\ bandms[n] >= 2 * BAND_DELAY
         /\ (pc = StripPc(n) /\ bandms[n] >= 2 * BAND_DELAY) =>
              /\ readingsCounter[n]' = readingsCounter[n] + 1
              /\ bandms[n]' = 0
              /\ currBrightVal[n] = readings[n][readingsCounter[n] + 1]
              /\ prevBrightVal[n]' = currBrightVal[n]
         /\ (pc = StripPc(n) /\ bandms[n] < 2 * BAND_DELAY) =>
              currBrightVal[n]' = readings[n][readingsCounter[n] + 1]]_vars

\* strip 1 has just moved its cursor from the first element to the second
C18_Witness ==
  /\ pc = "strip2"
  /\ Phase(1) = "Interpolating"
  /\ readingsCounter[1] = 1
  /\ bandms[1] = 0
  /\ prevBrightVal[1] = readings[1][1]
  /\ currBrightVal[1] = readings[1][1]

\* strip n's button fell in this pass while strip n plays back
Repressed(n) == pc = "set_playMode" /\ Flag(n) /\ playMode[n] = BUTTON_MODE

\* C19: a falling edge always sets the flag; set_playMode, finding the flag of
\* a strip that plays back, puts the strip into Playback(FadeOut) in that pass
\* and clears the flag; the strip then reaches Interpolating with cursor 0.
C19_RepressRestarts ==
  /\ [][\A n \in Strips :
          /\ (pc = "read_console" /\ fell[n]') => Flag(n)'
          /\ Repressed(n) => (Phase(n)' = "FadeOut" /\ ~Flag(n)')]_vars
  /\ \A n \in Strips :
       Repressed(n) ~> (Phase(n) = "Interpolating" /\ readingsCounter[n] = 0)

\* strip 1 was pressed again while it faded to idle after its whole sequence
C19_Witness ==
  /\ pc = "strip1"
  /\ fell[1]
  /\ presses = 2
  /\ Phase(1) = "FadeOut"
  /\ readingsCounter[1] = Len(readings[1])

\* C20: a strip in Playback passes on from each phase: FadeOut leads to
\* Interpolating, Interpolating to FadeToIdle, FadeToIdle to Idle.
C20_PlaybackEnds ==
  \A n \in Strips :
    /\ (Phase(n) = "FadeOut") ~> (Phase(n) = "Interpolating")
    /\ (Phase(n) = "Interpolating") ~> (Phase(n) = "FadeToIdle")
    /\ (Phase(n) = "FadeToIdle") ~> (Phase(n) = "Idle")

\* strip 2 idles again after its playback
C20_Witness ==
  /\ playMode[2] = IDLE_MODE
  /\ hasPlayModeChanged[2]
  /\ brightness[2] = 5
  /\ presses = 1

\* C21 as stated: a step inside the dwell window that changes the colour
\* value raises it by 10 to at most 255 or lowers it by 10 to at least 0.
C21_NoWrapAround ==
  [][\A n \in Strips :
       ( /\ pc = StripPc(n)
         /\ Phase(n) = "Interpolating"
         /\ bandms[n] < BAND_DELAY * 2
         /\ Color[n].val' # Color[n].val )
       => \/ Color[n].val' = Color[n].val + 10 /\ Color[n].val' <= 255
          \/ Color[n].val' = Color[n].val - 10 /\ Color[n].val' >= 0]_vars

=============================================================================
